---- MODULE Spec2Model ----
(***************************************************************************)
(* RobotArmController (lib/robot_arm.py) with the threads that drive it:   *)
(* the callers that start handle_object on a new thread (main.py, gui.py), *)
(* the handle_object sequence itself, the smooth_move threads a step       *)
(* starts, and emergency_stop called from another thread.                  *)
(*                                                                         *)
(* Angles are kept in ticks, TicksPerDegree ticks to a degree: a servo     *)
(* holds a quantised angle, and the float arithmetic of the interpolation  *)
(* is rounded down to a tick.                                              *)
(***************************************************************************)
EXTENDS Integers, Sequences, FiniteSets, TLC

\* ---------------------------------------------------------------- bounds

\* Interpolation steps of one profile (Settings.MOVEMENT_STEPS, 50 by default
\* and configurable; every caller in the sequence passes the default).
MovementSteps == 1

\* handle_object threads each caller starts in one behaviour.
MaxCalls == 1

\* emergency_stop() calls in one behaviour.
MaxStops == 1

\* Actuator I/O errors (a servo read or write that raises) in one behaviour.
MaxFaults == 1

\* Direct calls of the controller's methods made by the thread that
\* constructed it, in one behaviour.
MaxCmds == 1

\* Largest step count a direct smooth_move call is given.
MaxSteps == 3

\* Resolution of an angle: ticks per degree.
TicksPerDegree == 2

\* ------------------------------------------------------------- constants

\* servo.angle of a servo that was never commanded (MockServo: None).
None == -1

GRIPPER_CHANNEL == 3

\* The callers that start handle_object on a thread of its own: the automatic
\* detection loop and the operator's manual command.  Each has at most one
\* handle_object thread alive at a time in the model.
Callers == {"auto", "manual"}

\* What one behaviour is loaded with: the callers that may start a sequence,
\* and how many stops and actuator errors may happen.  In simulation every
\* caller runs and stops may come at any time (no actuator is touched, so none
\* can fail).  On hardware a behaviour has one sequence with stops, or one
\* sequence with actuator errors, or stops with actuator errors on an idle arm.
Scenarios(sim) ==
    IF sim
    THEN {[callers |-> Callers, stops |-> MaxStops, faults |-> 0]}
    ELSE {[callers |-> {"auto"}, stops |-> MaxStops, faults |-> 0],
          [callers |-> {"auto"}, stops |-> 0, faults |-> MaxFaults],
          [callers |-> {}, stops |-> MaxStops, faults |-> MaxFaults]}

\* Channels emergency_stop and _initialize_servos walk: range(4).
Channels == 0..3

Deg(d) == d * TicksPerDegree

\* Settings.ARM_POSITIONS, in ticks.
ARM_POSITIONS ==
    [ home          |-> <<Deg(120), Deg(45), Deg(45)>>,
      pickup        |-> <<Deg(0), Deg(0), Deg(180)>>,
      defective     |-> <<Deg(180), Deg(0), Deg(180)>>,
      non_defective |-> <<Deg(90), Deg(0), Deg(180)>> ]

\* A position dict {0: a, 1: b, 2: c} as a function on the channels 0..2.
PositionDict(a, b, c) == [ch \in 0..2 |-> IF ch = 0 THEN a ELSE IF ch = 1 THEN b ELSE c]

Preset(t) == PositionDict(t[1], t[2], t[3])

\* The preset tables a controller may be constructed with (arm_positions):
\* Settings.ARM_POSITIONS, or a custom table that lacks "non_defective".
FullTable == [n \in {"home", "pickup", "defective", "non_defective"} |-> Preset(ARM_POSITIONS[n])]

PartialTable == [n \in {"home", "pickup", "defective"} |-> Preset(ARM_POSITIONS[n])]

\* ------------------------------------------------------- pure functions

Abs(x) == IF x < 0 THEN 0 - x ELSE x

\* max(0, min(angle, 180))
Clamp(a) == IF a < 0 THEN 0 ELSE IF a > Deg(180) THEN Deg(180) ELSE a

\* eased_t = 2*t*t if t < 0.5 else -1 + (4 - 2*t)*t, with t = step/steps,
\* as the numerator over steps*steps.
EasedNum(step, steps) ==
    IF 2 * step < steps
    THEN 2 * step * step
    ELSE 4 * step * steps - 2 * step * step - steps * steps

\* angle = current_angle + delta * eased_t
Sample(start, target, step, steps) ==
    start + (((target - start) * EasedNum(step, steps)) \div (steps * steps))

\* ------------------------------------------------- the sequence's steps

\* handle_object's steps in order (spec 4.3's names).
StepNames == <<"PickApproach", "Grasp", "Lift", "Transit", "Place", "Release",
               "ReturnLift", "ReturnHome">>

LastStep == Len(StepNames)

\* What each step calls.
StepKind(s) ==
    CASE s \in {1, 8} -> "coord"      \* move_to_position_with_gripper
      [] s \in {3, 4, 5, 7} -> "move" \* move_to_position
      [] s = 2 -> "close"             \* gripper_close
      [] s = 6 -> "open"              \* gripper_open

\* A selection of the place preset with the two bins exchanged.
PlaceNameSwapped(defective) == IF defective THEN "non_defective" ELSE "defective"

PlaceName(defective) == IF defective THEN "defective" ELSE "non_defective"

\* The position dict a step moves to.
StepTarget(tbl, s, defective) ==
    LET pick == tbl["pickup"]
        place == tbl[PlaceName(defective)]
    IN CASE s = 1 -> pick
         [] s = 3 -> PositionDict(pick[0], Deg(45), Deg(45))
         [] s = 4 -> PositionDict(place[0], Deg(45), Deg(45))
         [] s = 5 -> PositionDict(place[0], place[1], place[2])
         [] s = 7 -> PositionDict(place[0], Deg(45), Deg(45))
         [] s = 8 -> tbl["home"]

\* start_gripper_angle and end_gripper_angle of a coordinated step.
GripperStart(s) == IF s = 1 THEN Deg(180) ELSE Deg(0)

GripperEnd(s) == IF s = 1 THEN Deg(0) ELSE Deg(180)

\* The label handle_object assigns to current_position after a step
\* ("" when it assigns none).
StepLabel(s, defective) ==
    CASE s = 1 -> "pickup"
      [] s = 5 -> PlaceName(defective)
      [] s = 8 -> "home"
      [] OTHER -> ""

\* ------------------------------------------------------------------ state

VARIABLES
    simulation_mode,   \* self.simulation_mode
    arm_ready,         \* self.arm_ready
    is_busy,           \* self.is_busy
    current_position,  \* self.current_position
    last_action_time,  \* self.last_action_time (a logical clock)
    positions,         \* self.positions
    scenario,          \* what this behaviour is loaded with
    servo,             \* self.kit.servo[ch].angle, in ticks, or None
    run,               \* the handle_object thread of each caller
    movers,            \* the smooth_move threads that are alive
    estop,             \* the thread inside emergency_stop()
    main,              \* the thread that constructs the controller
    calls,             \* handle_object threads each caller has started
    stops,             \* emergency_stop() calls so far
    faults,            \* actuator I/O errors so far
    lost,              \* smooth_move threads that died of an exception
    reported,          \* errors an except block of the controller logged
    stopMark,          \* "during"/"after" a stop made while a sequence ran
    overrun,           \* a mover wrote a 2nd sample after a stop returned
    lateStep           \* a sequence began a step after a stop returned

vars == <<simulation_mode, arm_ready, is_busy, current_position, last_action_time,
          positions, scenario, servo, run, movers, estop, main, calls, stops, faults,
          lost, reported, stopMark, overrun, lateStep>>

ctl == <<simulation_mode, arm_ready, positions, scenario, main>>

hist == <<stopMark, overrun, lateStep>>

NoRun == [pc |-> "none", step |-> 0, defective |-> FALSE, k |-> 0,
          halted |-> FALSE, late |-> FALSE, afterStop |-> FALSE]

\* The constructor has returned: the controller is in use.
Constructed == main.pc \in {"idle", "join"}

\* A handle_object thread that is past line 301 and before its return.
Executing(t) == run[t].pc \notin {"none", "start", "done"}

\* Sequence t is inside one of the eight steps of lines 316-365.
InStep(t) == run[t].pc \in {"begin", "grip", "gfinal", "join", "label"}

\* An emergency stop was made and has returned.
StopReturned == stops > 0 /\ estop.pc = "idle"

\* An actuator read or write may raise, on hardware only.
CanFault == ~simulation_mode /\ faults < scenario.faults

\* get_gripper_angle(): 180 in simulation, else servo.angle or 180
\* (None and 0 are both falsy).
get_gripper_angle ==
    IF simulation_mode THEN Deg(180)
    ELSE IF servo[GRIPPER_CHANNEL] = None \/ servo[GRIPPER_CHANNEL] = 0 THEN Deg(180)
    ELSE servo[GRIPPER_CHANNEL]

\* get_status()
get_status ==
    [ ready      |-> arm_ready,
      busy       |-> is_busy,
      simulation |-> simulation_mode,
      position   |-> current_position,
      last_action |-> last_action_time,
      gripper    |-> IF get_gripper_angle < Deg(90) THEN "open" ELSE "closed" ]

\* The state a fault-free constructor leaves: simulation mode (no servo is
\* driven), or hardware with the joints at home and the gripper closed.
Init ==
    /\ simulation_mode \in BOOLEAN
    /\ arm_ready = TRUE
    /\ is_busy = FALSE
    /\ current_position = "home"
    /\ last_action_time = 0
    /\ positions \in IF simulation_mode THEN {FullTable, PartialTable} ELSE {FullTable}
    /\ scenario \in Scenarios(simulation_mode)
    /\ servo = IF simulation_mode
               THEN [ch \in Channels |-> None]
               ELSE [ch \in Channels |->
                        IF ch = GRIPPER_CHANNEL THEN Deg(180) ELSE positions["home"][ch]]
    /\ run = [t \in Callers |-> NoRun]
    /\ movers = {}
    /\ estop = [pc |-> "idle", ch |-> 0, val |-> 0]
    /\ main = [pc |-> "idle", ch |-> 0, n |-> 0]
    /\ calls = [t \in Callers |-> 0]
    /\ stops = 0
    /\ faults = 0
    /\ lost = {}
    /\ reported = {}
    /\ stopMark = "none"
    /\ overrun = FALSE
    /\ lateStep = FALSE

\* ------------------------------------------------------------ the callers

\* main.py:212-221, gui.py:276-287, gui.py:382-396: a caller that sees the arm
\* ready and not busy starts handle_object(defective) on a new thread.
Spawn(t, d) ==
    /\ Constructed
    /\ arm_ready
    /\ ~is_busy
    /\ t \in scenario.callers
    /\ run[t].pc \in {"none", "done"}
    /\ calls[t] < MaxCalls
    /\ run' = [run EXCEPT ![t] = [NoRun EXCEPT !.pc = "start", !.defective = d,
                                                !.afterStop = StopReturned]]
    /\ calls' = [calls EXCEPT ![t] = @ + 1]
    /\ UNCHANGED <<ctl, is_busy, current_position, last_action_time, servo, movers,
                   estop, stops, faults, lost, reported, hist>>

\* ---------------------------------------------------------- handle_object

\* The run's state after the call of step s has returned: the label
\* assignment that follows it, or the next step.
AfterStep(r) ==
    IF StepLabel(r.step, r.defective) # ""
    THEN [r EXCEPT !.pc = "label", !.k = 0]
    ELSE [r EXCEPT !.pc = "begin", !.step = @ + 1, !.k = 0]

\* A move that starts a thread for every channel of the dict, the gripper's
\* included.
StartMoversAll(t, s, dict) ==
    { [run |-> t, step |-> s, ch |-> ch, pc |-> "start", start |-> 0,
       target |-> dict[ch], arg |-> dict[ch], steps |-> MovementSteps, k |-> 0,
       halt |-> FALSE, late |-> FALSE]
      : ch \in DOMAIN dict }

\* The smooth_move threads a move starts: one per channel of the dict that is
\* not the gripper's.
StartMovers(t, s, dict) ==
    { [run |-> t, step |-> s, ch |-> ch, pc |-> "start", start |-> 0,
       target |-> dict[ch], arg |-> dict[ch], steps |-> MovementSteps, k |-> 0,
       halt |-> FALSE, late |-> FALSE]
      : ch \in (DOMAIN dict) \ {GRIPPER_CHANNEL} }

\* Line 301, and the preset lookups of lines 305-314: a missing preset raises
\* KeyError inside the try block.
RunEnter(t) ==
    /\ run[t].pc = "start"
    /\ is_busy' = TRUE
    /\ run' = [run EXCEPT ![t] =
                 IF {"home", "pickup", PlaceName(run[t].defective)} \subseteq DOMAIN positions
                 THEN [@ EXCEPT !.pc = "begin", !.step = 1]
                 ELSE [@ EXCEPT !.pc = "except"]]
    /\ stopMark' = IF stopMark = "after" THEN "none" ELSE stopMark
    /\ UNCHANGED <<ctl, current_position, last_action_time, servo, movers, estop,
                   calls, stops, faults, lost, reported, overrun, lateStep>>

\* Lines 368-370: the except block logs the exception and swallows it.
RunExcept(t) ==
    /\ run[t].pc = "except"
    /\ reported' = reported \cup {[run |-> t, step |-> run[t].step, ch |-> None]}
    /\ run' = [run EXCEPT ![t].pc = "finally"]
    /\ UNCHANGED <<ctl, is_busy, current_position, last_action_time, servo, movers,
                   estop, calls, stops, faults, lost, hist>>

\* The call a step makes, up to the first point where it waits or writes
\* again: move_to_position (153-180), move_to_position_with_gripper
\* (203-229), gripper_close (271-286), gripper_open (254-269).
RunBegin(t) ==
    LET r == run[t]
        s == r.step
        kind == StepKind(s)
    IN
    /\ r.pc = "begin"
    /\ lateStep' = (lateStep \/ (r.halted /\ s > 1))
    /\ IF simulation_mode
       THEN \* time.sleep(0.5) and return
            /\ run' = [run EXCEPT ![t] = AfterStep(r)]
            /\ UNCHANGED <<servo, movers, faults, reported>>
       ELSE CASE kind = "move" ->
                 /\ movers' = movers \cup StartMovers(t, s, StepTarget(positions, s, r.defective))
                 /\ run' = [run EXCEPT ![t].pc = "join"]
                 /\ UNCHANGED <<servo, faults, reported>>
              [] kind = "coord" ->
                 /\ movers' = movers \cup StartMovers(t, s, StepTarget(positions, s, r.defective))
                 /\ run' = [run EXCEPT ![t].pc =
                               IF Abs(GripperStart(s) - GripperEnd(s)) > Deg(5)
                               THEN "grip" ELSE "join",
                            ![t].k = 1]
                 /\ UNCHANGED <<servo, faults, reported>>
              [] OTHER ->
                 \* gripper_close / gripper_open: one write, its error caught
                 /\ run' = [run EXCEPT ![t] = AfterStep(r)]
                 /\ UNCHANGED movers
                 /\ \/ /\ servo' = [servo EXCEPT ![GRIPPER_CHANNEL] =
                                       IF kind = "close" THEN Deg(180) ELSE Deg(0)]
                       /\ UNCHANGED <<faults, reported>>
                    \/ /\ CanFault
                       /\ faults' = faults + 1
                       /\ reported' = reported \cup
                              {[run |-> t, step |-> s, ch |-> GRIPPER_CHANNEL]}
                       /\ UNCHANGED servo
    /\ UNCHANGED <<ctl, is_busy, current_position, last_action_time, estop, calls,
                   stops, lost, stopMark, overrun>>

\* One pass of the gripper loop of move_to_position_with_gripper (232-241), in
\* the sequence's own thread.  A write that raises is caught at line 250,
\* which returns without joining the arm threads.
RunGrip(t) ==
    LET r == run[t]
        s == r.step
    IN
    /\ r.pc = "grip"
    /\ \/ /\ servo' = [servo EXCEPT ![GRIPPER_CHANNEL] =
                          Sample(GripperStart(s), GripperEnd(s), r.k, MovementSteps)]
          /\ run' = [run EXCEPT ![t].pc = IF r.k < MovementSteps THEN "grip" ELSE "gfinal",
                                ![t].k = IF r.k < MovementSteps THEN r.k + 1 ELSE 0,
                                ![t].late = r.halted]
          /\ overrun' = (overrun \/ (r.halted /\ r.late))
          /\ UNCHANGED <<faults, reported>>
       \/ /\ CanFault
          /\ faults' = faults + 1
          /\ reported' = reported \cup {[run |-> t, step |-> s, ch |-> GRIPPER_CHANNEL]}
          /\ run' = [run EXCEPT ![t] = AfterStep(r)]
          /\ UNCHANGED <<servo, overrun>>
    /\ UNCHANGED <<ctl, is_busy, current_position, last_action_time, movers, estop,
                   calls, stops, lost, stopMark, lateStep>>

\* Line 244: the gripper's exact end angle.
RunGripFinal(t) ==
    LET r == run[t]
        s == r.step
    IN
    /\ r.pc = "gfinal"
    /\ \/ /\ servo' = [servo EXCEPT ![GRIPPER_CHANNEL] = GripperEnd(s)]
          /\ run' = [run EXCEPT ![t].pc = "join"]
          /\ UNCHANGED <<faults, reported>>
       \/ /\ CanFault
          /\ faults' = faults + 1
          /\ reported' = reported \cup {[run |-> t, step |-> s, ch |-> GRIPPER_CHANNEL]}
          /\ run' = [run EXCEPT ![t] = AfterStep(r)]
          /\ UNCHANGED servo
    /\ UNCHANGED <<ctl, is_busy, current_position, last_action_time, movers, estop,
                   calls, stops, lost, hist>>

\* Joins that return without waiting for the threads the step started.
RunJoinNoWait(t) ==
    /\ run[t].pc = "join"
    /\ run' = [run EXCEPT ![t] = AfterStep(run[t])]
    /\ UNCHANGED <<ctl, is_busy, current_position, last_action_time, servo, movers,
                   estop, calls, stops, faults, lost, reported, hist>>

\* The joins of lines 182-183 and 247-248: they return once every thread the
\* step started has ended.
RunJoin(t) ==
    /\ run[t].pc = "join"
    /\ \A m \in movers : ~(m.run = t /\ m.step = run[t].step)
    /\ run' = [run EXCEPT ![t] = AfterStep(run[t])]
    /\ UNCHANGED <<ctl, is_busy, current_position, last_action_time, servo, movers,
                   estop, calls, stops, faults, lost, reported, hist>>

\* Lines 319, 347, 364: self.current_position = <label>, unconditionally.
RunLabel(t) ==
    LET r == run[t] IN
    /\ r.pc = "label"
    /\ current_position' = StepLabel(r.step, r.defective)
    /\ run' = [run EXCEPT ![t] = IF r.step = LastStep
                                 THEN [r EXCEPT !.pc = "finally"]
                                 ELSE [r EXCEPT !.pc = "begin", !.step = @ + 1]]
    /\ UNCHANGED <<ctl, is_busy, last_action_time, servo, movers, estop, calls,
                   stops, faults, lost, reported, hist>>

\* A finally block that forgets to release the busy flag.
RunFinallyKeepsBusy(t) ==
    /\ run[t].pc = "finally"
    /\ last_action_time' = last_action_time + 1
    /\ run' = [run EXCEPT ![t].pc = "done"]
    /\ UNCHANGED <<ctl, is_busy, current_position, servo, movers, estop, calls, stops,
                   faults, lost, reported, hist>>

\* Lines 371-373: the finally block, and the return.
RunFinally(t) ==
    /\ run[t].pc = "finally"
    /\ is_busy' = FALSE
    /\ last_action_time' = last_action_time + 1
    /\ run' = [run EXCEPT ![t].pc = "done"]
    /\ UNCHANGED <<ctl, current_position, servo, movers, estop, calls, stops,
                   faults, lost, reported, hist>>

\* ------------------------------------------------------------ smooth_move

\* What is left of a smooth_move thread that an actuator error (op: the "read"
\* of line 134 or a "write" of lines 148/151) ended.
Died(m, op) == [run |-> m.run, step |-> m.step, ch |-> m.ch, op |-> op]

\* A smooth_move without the test of line 140: it runs its profile whatever
\* the distance.
MoverReadAlwaysMoves(m) ==
    /\ m \in movers
    /\ m.pc = "start"
    /\ LET cur == Clamp(IF servo[m.ch] = None THEN 0 ELSE servo[m.ch])
           tgt == Clamp(m.target)
       IN movers' = (movers \ {m}) \cup
                    {[m EXCEPT !.pc = "loop", !.start = cur, !.target = tgt, !.k = 1]}
    /\ UNCHANGED <<ctl, is_busy, current_position, last_action_time, servo, run,
                   estop, calls, stops, faults, lost, reported, hist>>

\* Lines 134-141 on the thread of one joint: read the servo's angle, clamp,
\* and return at once when the move is shorter than a degree.  A read that
\* raises ends the thread; nothing catches it.
MoverRead(m) ==
    /\ m \in movers
    /\ m.pc = "start"
    /\ \/ LET cur == Clamp(IF servo[m.ch] = None THEN 0 ELSE servo[m.ch])
              tgt == Clamp(m.target)
          IN /\ movers' = IF Abs(tgt - cur) < Deg(1)
                          THEN movers \ {m}
                          ELSE (movers \ {m}) \cup
                               {[m EXCEPT !.pc = "loop", !.start = cur, !.target = tgt, !.k = 1]}
             /\ UNCHANGED <<faults, lost>>
       \/ /\ CanFault
          /\ faults' = faults + 1
          /\ movers' = movers \ {m}
          /\ lost' = lost \cup {Died(m, "read")}
    /\ UNCHANGED <<ctl, is_busy, current_position, last_action_time, servo, run,
                   estop, calls, stops, reported, hist>>

\* One pass of the loop of lines 143-149: write the next sample.
MoverWrite(m) ==
    /\ m \in movers
    /\ m.pc = "loop"
    /\ \/ /\ servo' = [servo EXCEPT ![m.ch] = Sample(m.start, m.target, m.k, m.steps)]
          /\ movers' = (movers \ {m}) \cup
                 {IF m.k < m.steps
                  THEN [m EXCEPT !.k = @ + 1, !.late = m.halt]
                  ELSE [m EXCEPT !.pc = "final", !.k = 0, !.late = m.halt]}
          /\ overrun' = (overrun \/ (m.halt /\ m.late))
          /\ UNCHANGED <<faults, lost>>
       \/ /\ CanFault
          /\ faults' = faults + 1
          /\ movers' = movers \ {m}
          /\ lost' = lost \cup {Died(m, "write")}
          /\ UNCHANGED <<servo, overrun>>
    /\ UNCHANGED <<ctl, is_busy, current_position, last_action_time, run, estop,
                   calls, stops, reported, stopMark, lateStep>>

\* A last write that uses the argument as it was passed, not the clamped
\* target.
MoverFinalUnclamped(m) ==
    /\ m \in movers
    /\ m.pc = "final"
    /\ movers' = movers \ {m}
    /\ servo' = [servo EXCEPT ![m.ch] = m.arg]
    /\ UNCHANGED <<ctl, is_busy, current_position, last_action_time, run, estop,
                   calls, stops, faults, lost, reported, hist>>

\* Line 151: servo.angle = target_angle, and the thread ends.
MoverFinal(m) ==
    /\ m \in movers
    /\ m.pc = "final"
    /\ movers' = movers \ {m}
    /\ \/ /\ servo' = [servo EXCEPT ![m.ch] = m.target]
          /\ UNCHANGED <<faults, lost>>
       \/ /\ CanFault
          /\ faults' = faults + 1
          /\ lost' = lost \cup {Died(m, "write")}
          /\ UNCHANGED servo
    /\ UNCHANGED <<ctl, is_busy, current_position, last_action_time, run, estop,
                   calls, stops, reported, hist>>

\* --------------------------------------------------------- emergency_stop

\* The channel after ch in range(4), or the reset of line 393.
NextChannel(ch) ==
    IF ch + 1 \in Channels
    THEN [pc |-> "read", ch |-> ch + 1, val |-> 0]
    ELSE [pc |-> "reset", ch |-> 0, val |-> 0]

\* emergency_stop() is called, from a thread of its own (lines 375-379).
EStopCall ==
    /\ Constructed
    /\ estop.pc = "idle"
    /\ stops < scenario.stops
    /\ stops' = stops + 1
    /\ estop' = IF simulation_mode
                THEN [pc |-> "reset", ch |-> 0, val |-> 0]
                ELSE [pc |-> "read", ch |-> 0, val |-> 0]
    /\ stopMark' = IF \E t \in Callers : InStep(t) THEN "during" ELSE stopMark
    /\ UNCHANGED <<ctl, is_busy, current_position, last_action_time, servo, run,
                   movers, calls, faults, lost, reported, overrun, lateStep>>

\* Lines 383-387: read the channel's angle; a channel whose angle is None is
\* skipped.  An error leaves the loop for the except of line 389.
EStopRead ==
    /\ estop.pc = "read"
    /\ \/ /\ estop' = IF servo[estop.ch] = None
                      THEN NextChannel(estop.ch)
                      ELSE [estop EXCEPT !.pc = "write", !.val = servo[estop.ch]]
          /\ UNCHANGED <<faults, reported>>
       \/ /\ CanFault
          /\ faults' = faults + 1
          /\ reported' = reported \cup {[run |-> "estop", step |-> 0, ch |-> estop.ch]}
          /\ estop' = [pc |-> "reset", ch |-> 0, val |-> 0]
    /\ UNCHANGED <<ctl, is_busy, current_position, last_action_time, servo, run,
                   movers, calls, stops, lost, hist>>

\* A write-back with no handler around it: the error leaves emergency_stop
\* as an exception and line 393 is never reached.
EStopWriteRaises ==
    /\ estop.pc = "write"
    /\ \/ /\ servo' = [servo EXCEPT ![estop.ch] = estop.val]
          /\ estop' = NextChannel(estop.ch)
          /\ UNCHANGED <<faults, lost>>
       \/ /\ CanFault
          /\ faults' = faults + 1
          /\ lost' = lost \cup {[run |-> "estop", step |-> 0, ch |-> estop.ch,
                                 op |-> "write"]}
          /\ estop' = [pc |-> "raised", ch |-> 0, val |-> 0]
          /\ UNCHANGED servo
    /\ UNCHANGED <<ctl, is_busy, current_position, last_action_time, run, movers,
                   calls, stops, reported, hist>>

\* Line 388: write the angle that was read back to the channel.
EStopWrite ==
    /\ estop.pc = "write"
    /\ \/ /\ servo' = [servo EXCEPT ![estop.ch] = estop.val]
          /\ estop' = NextChannel(estop.ch)
          /\ UNCHANGED <<faults, reported>>
       \/ /\ CanFault
          /\ faults' = faults + 1
          /\ reported' = reported \cup {[run |-> "estop", step |-> 0, ch |-> estop.ch]}
          /\ estop' = [pc |-> "reset", ch |-> 0, val |-> 0]
          /\ UNCHANGED servo
    /\ UNCHANGED <<ctl, is_busy, current_position, last_action_time, run, movers,
                   calls, stops, lost, hist>>

\* An emergency stop that marks the controller not ready as it returns.
EStopResetFaults ==
    /\ estop.pc = "reset"
    /\ is_busy' = FALSE
    /\ arm_ready' = FALSE
    /\ estop' = [pc |-> "idle", ch |-> 0, val |-> 0]
    /\ UNCHANGED <<simulation_mode, positions, scenario, main, run, movers,
                   current_position, last_action_time, servo, calls, stops,
                   faults, lost, reported, hist>>

\* Line 393: self.is_busy = False, and the return.
EStopReset ==
    /\ estop.pc = "reset"
    /\ is_busy' = FALSE
    /\ estop' = [pc |-> "idle", ch |-> 0, val |-> 0]
    /\ stopMark' = IF stopMark = "during" THEN "after" ELSE stopMark
    /\ run' = [t \in Callers |->
                 IF stopMark = "during" /\ InStep(t)
                 THEN [run[t] EXCEPT !.halted = TRUE] ELSE run[t]]
    /\ movers' = {[m EXCEPT !.halt = (stopMark = "during")] : m \in movers}
    /\ UNCHANGED <<ctl, current_position, last_action_time, servo, calls, stops,
                   faults, lost, reported, overrun, lateStep>>

\* ------------------------------------------------------------- __init__

\* What one behaviour that starts at the constructor is loaded with; cmds is
\* the number of direct calls of the controller's methods the constructing
\* thread makes afterwards.
BootScenarios(sim) ==
    IF sim
    THEN {[callers |-> {"auto"}, stops |-> MaxStops, faults |-> 0, cmds |-> MaxCmds]}
    ELSE {[callers |-> {"auto"}, stops |-> 0, faults |-> MaxFaults, cmds |-> 0],
          [callers |-> {"auto"}, stops |-> 0, faults |-> 0, cmds |-> MaxCmds],
          [callers |-> {}, stops |-> MaxStops, faults |-> MaxFaults, cmds |-> MaxCmds]}

\* What the constructor and the direct calls never assign.
bootFrame == <<positions, scenario, is_busy, last_action_time, run, estop, calls,
               stops, lost, hist>>

\* Lines 46-57: the attributes before the try block.  simulation_mode is the
\* argument, or not SERVO_AVAILABLE.
BootInit ==
    /\ simulation_mode \in BOOLEAN
    /\ arm_ready = FALSE
    /\ is_busy = FALSE
    /\ last_action_time = 0
    /\ current_position = "unknown"
    /\ positions = FullTable
    /\ scenario \in BootScenarios(simulation_mode)
    /\ servo = [ch \in Channels |-> None]
    /\ run = [t \in Callers |-> NoRun]
    /\ movers = {}
    /\ estop = [pc |-> "idle", ch |-> 0, val |-> 0]
    /\ main = [pc |-> "new", ch |-> 0, n |-> 0]
    /\ calls = [t \in Callers |-> 0]
    /\ stops = 0
    /\ faults = 0
    /\ lost = {}
    /\ reported = {}
    /\ stopMark = "none"
    /\ overrun = FALSE
    /\ lateStep = FALSE

\* Lines 59-65 and 87-88: in simulation the constructor sets arm_ready and
\* the position "home" and returns; on hardware it goes on to line 69.
BootBegin ==
    /\ main.pc = "new"
    /\ IF simulation_mode
       THEN /\ arm_ready' = TRUE
            /\ current_position' = "home"
            /\ main' = [main EXCEPT !.pc = "idle"]
       ELSE /\ main' = [main EXCEPT !.pc = "kit"]
            /\ UNCHANGED <<arm_ready, current_position>>
    /\ UNCHANGED <<bootFrame, simulation_mode, servo, movers, faults, reported>>

\* Lines 69-78: ServoKit(channels=16) and the gripper servo's range.  An
\* error is caught by the except of line 90.
BootKit ==
    /\ main.pc = "kit"
    /\ \/ /\ main' = [main EXCEPT !.pc = "servos", !.ch = 0]
          /\ UNCHANGED <<faults, reported>>
       \/ /\ CanFault
          /\ faults' = faults + 1
          /\ reported' = reported \cup {[run |-> "main", step |-> 0, ch |-> GRIPPER_CHANNEL]}
          /\ main' = [main EXCEPT !.pc = "failed"]
    /\ UNCHANGED <<bootFrame, simulation_mode, arm_ready, current_position, servo, movers>>

\* _initialize_servos, lines 102-111, for one channel: its range, and 90
\* degrees on every channel but the gripper's.  An error is logged and raised
\* again (lines 112-114), to the except of line 90.
BootServo ==
    /\ main.pc = "servos"
    /\ \/ /\ servo' = IF main.ch # GRIPPER_CHANNEL
                      THEN [servo EXCEPT ![main.ch] = Deg(90)]
                      ELSE servo
          /\ main' = IF main.ch + 1 \in Channels
                     THEN [main EXCEPT !.ch = @ + 1]
                     ELSE [main EXCEPT !.pc = "home", !.ch = 0]
          /\ UNCHANGED <<faults, reported>>
       \/ /\ CanFault
          /\ faults' = faults + 1
          /\ reported' = reported \cup {[run |-> "main", step |-> 0, ch |-> main.ch]}
          /\ main' = [main EXCEPT !.pc = "failed", !.ch = 0]
          /\ UNCHANGED servo
    /\ UNCHANGED <<bootFrame, simulation_mode, arm_ready, current_position, movers>>

\* Line 81: move_to_position(self.positions["home"]) starts its threads.
BootHome ==
    /\ main.pc = "home"
    /\ movers' = movers \cup StartMovers("main", 0, positions["home"])
    /\ main' = [main EXCEPT !.pc = "homed"]
    /\ UNCHANGED <<bootFrame, simulation_mode, arm_ready, current_position, servo,
                   faults, reported>>

\* The joins of move_to_position have returned; line 82 sets the label.
BootLabel ==
    /\ main.pc = "homed"
    /\ \A m \in movers : m.run # "main"
    /\ current_position' = "home"
    /\ main' = [main EXCEPT !.pc = "close"]
    /\ UNCHANGED <<bootFrame, simulation_mode, arm_ready, servo, movers, faults,
                   reported>>

\* A constructor that leaves the gripper untouched instead of closing it.
BootCloseSkipped ==
    /\ main.pc = "close"
    /\ main' = [main EXCEPT !.pc = "ready"]
    /\ UNCHANGED <<bootFrame, simulation_mode, arm_ready, current_position, servo,
                   movers, faults, reported>>

\* Line 85: gripper_close() (271-286) writes 180; an error is caught and
\* logged inside gripper_close and the constructor goes on.
BootClose ==
    /\ main.pc = "close"
    /\ main' = [main EXCEPT !.pc = "ready"]
    /\ \/ /\ servo' = [servo EXCEPT ![GRIPPER_CHANNEL] = Deg(180)]
          /\ UNCHANGED <<faults, reported>>
       \/ /\ CanFault
          /\ faults' = faults + 1
          /\ reported' = reported \cup {[run |-> "main", step |-> 0, ch |-> GRIPPER_CHANNEL]}
          /\ UNCHANGED servo
    /\ UNCHANGED <<bootFrame, simulation_mode, arm_ready, current_position, movers>>

\* Lines 87-88: arm_ready = True, and the constructor returns.
BootReady ==
    /\ main.pc = "ready"
    /\ arm_ready' = TRUE
    /\ main' = [main EXCEPT !.pc = "idle"]
    /\ UNCHANGED <<bootFrame, simulation_mode, current_position, servo, movers,
                   faults, reported>>

\* Lines 90-94: the except block of the constructor.
BootFailed ==
    /\ main.pc = "failed"
    /\ arm_ready' = FALSE
    /\ simulation_mode' = TRUE
    /\ main' = [main EXCEPT !.pc = "idle"]
    /\ UNCHANGED <<bootFrame, current_position, servo, movers, faults, reported>>

\* ----------------------------------------------------------- direct calls

\* The constructing thread may make another direct call.
CanCall == main.pc = "idle" /\ main.n < scenario.cmds

\* move_to_position(self.positions["home"]) called directly (gui.py:295 and
\* 429, main.py:247, the tests): lines 162-180.  The method tests nothing but
\* simulation_mode before it starts its threads.
CmdMoveTo ==
    /\ CanCall
    /\ IF simulation_mode
       THEN /\ main' = [main EXCEPT !.n = @ + 1]
            /\ UNCHANGED movers
       ELSE /\ main' = [main EXCEPT !.n = @ + 1, !.pc = "join"]
            /\ movers' = movers \cup StartMovers("direct", 0, positions["home"])
    /\ UNCHANGED <<bootFrame, simulation_mode, arm_ready, current_position, servo,
                   faults, reported>>

\* Joins of a direct call that return without waiting for its threads.
CmdJoinNoWait ==
    /\ main.pc = "join"
    /\ main' = [main EXCEPT !.pc = "idle"]
    /\ UNCHANGED <<bootFrame, simulation_mode, arm_ready, current_position, servo,
                   movers, faults, reported>>

\* Lines 182-183 of the direct call: the joins return.
CmdJoin ==
    /\ main.pc = "join"
    /\ \A m \in movers : m.run # "direct"
    /\ main' = [main EXCEPT !.pc = "idle"]
    /\ UNCHANGED <<bootFrame, simulation_mode, arm_ready, current_position, servo,
                   movers, faults, reported>>

\* gripper_open() (254-269) or gripper_close() (271-286) called directly:
\* nothing in simulation, one write on hardware, its error caught and logged.
CmdGripper(open) ==
    /\ CanCall
    /\ main' = [main EXCEPT !.n = @ + 1]
    /\ \/ /\ servo' = IF simulation_mode THEN servo
                      ELSE [servo EXCEPT ![GRIPPER_CHANNEL] =
                               IF open THEN Deg(0) ELSE Deg(180)]
          /\ UNCHANGED <<faults, reported>>
       \/ /\ CanFault
          /\ faults' = faults + 1
          /\ reported' = reported \cup {[run |-> "direct", step |-> 0, ch |-> GRIPPER_CHANNEL]}
          /\ UNCHANGED servo
    /\ UNCHANGED <<bootFrame, simulation_mode, arm_ready, current_position, movers>>

\* handle_object(defective) started without the callers' tests of arm_ready
\* and is_busy (test_robot_arm.py:214 calls it so): the method has none.
CallDirect(t, d) ==
    /\ Constructed
    /\ t \in scenario.callers
    /\ run[t].pc \in {"none", "done"}
    /\ calls[t] < MaxCalls
    /\ run' = [run EXCEPT ![t] = [NoRun EXCEPT !.pc = "start", !.defective = d,
                                                !.afterStop = StopReturned]]
    /\ calls' = [calls EXCEPT ![t] = @ + 1]
    /\ UNCHANGED <<ctl, is_busy, current_position, last_action_time, servo, movers,
                   estop, stops, faults, lost, reported, hist>>

\* get_status() (395-409) called from any thread.  It assigns nothing.  On
\* hardware get_gripper_angle reads the gripper servo's angle (line 292) with
\* no handler around it: a read that raises leaves get_status as an exception
\* in the caller.
GetStatus ==
    /\ Constructed
    /\ \/ UNCHANGED <<faults, lost>>
       \/ /\ CanFault
          /\ faults' = faults + 1
          /\ lost' = lost \cup {[run |-> "status", step |-> 0, ch |-> GRIPPER_CHANNEL,
                                 op |-> "read"]}
    /\ UNCHANGED <<ctl, is_busy, current_position, last_action_time, servo, run,
                   movers, estop, calls, stops, reported, hist>>

\* ------------------------------------------------------- the specification

RunStep(t) ==
    \/ RunEnter(t)
    \/ RunExcept(t)
    \/ RunBegin(t)
    \/ RunGrip(t)
    \/ RunGripFinal(t)
    \/ RunJoin(t)
    \/ RunLabel(t)
    \/ RunFinally(t)

MoverStep(m) ==
    \/ MoverRead(m)
    \/ MoverWrite(m)
    \/ MoverFinal(m)

EStopStep ==
    \/ EStopRead
    \/ EStopWrite
    \/ EStopReset

Next ==
    \/ \E t \in Callers, d \in BOOLEAN : Spawn(t, d)
    \/ \E t \in Callers : RunEnter(t)
    \/ \E t \in Callers : RunExcept(t)
    \/ \E t \in Callers : RunBegin(t)
    \/ \E t \in Callers : RunGrip(t)
    \/ \E t \in Callers : RunGripFinal(t)
    \/ \E t \in Callers : RunJoin(t)
    \/ \E t \in Callers : RunLabel(t)
    \/ \E t \in Callers : RunFinally(t)
    \/ \E m \in movers : MoverRead(m)
    \/ \E m \in movers : MoverWrite(m)
    \/ \E m \in movers : MoverFinal(m)
    \/ EStopCall
    \/ EStopRead
    \/ EStopWrite
    \/ EStopReset

Spec == Init /\ [][Next]_vars

\* Every thread that can take a step is scheduled again: the handle_object
\* threads and the smooth_move threads are ordinary threads of the process.
\* Nothing obliges a caller to start a sequence or anyone to call
\* emergency_stop.
AnyMoverStep == \E m \in movers : MoverStep(m)

Fairness ==
    /\ \A t \in Callers : WF_vars(RunStep(t))
    /\ WF_vars(AnyMoverStep)
    /\ WF_vars(EStopStep)

FairSpec == Spec /\ Fairness

\* The controller from its construction on: the constructor, then the
\* callers' sequences, direct calls, stops and status polls.  The preset
\* table is the full one, so no sequence meets a missing preset.
NextBoot ==
    \/ BootBegin
    \/ BootKit
    \/ BootServo
    \/ BootHome
    \/ BootLabel
    \/ BootClose
    \/ BootReady
    \/ BootFailed
    \/ CmdMoveTo
    \/ CmdJoin
    \/ \E open \in BOOLEAN : CmdGripper(open)
    \/ \E t \in Callers, d \in BOOLEAN : Spawn(t, d)
    \/ \E t \in Callers, d \in BOOLEAN : CallDirect(t, d)
    \/ GetStatus
    \/ \E t \in Callers : RunEnter(t)
    \/ \E t \in Callers : RunBegin(t)
    \/ \E t \in Callers : RunGrip(t)
    \/ \E t \in Callers : RunGripFinal(t)
    \/ \E t \in Callers : RunJoin(t)
    \/ \E t \in Callers : RunLabel(t)
    \/ \E t \in Callers : RunFinally(t)
    \/ \E m \in movers : MoverRead(m)
    \/ \E m \in movers : MoverWrite(m)
    \/ \E m \in movers : MoverFinal(m)
    \/ EStopCall
    \/ EStopRead
    \/ EStopWrite
    \/ EStopReset

BootSpec == BootInit /\ [][NextBoot]_vars

\* One direct call smooth_move(servo, target_angle, steps) on an idle,
\* constructed controller on hardware, for every angle the servo may hold,
\* every target angle, inside 0..180 or not, and every step count.
StartAngles == {None, Deg(0), Deg(0) + 1, Deg(1), Deg(90), Deg(180) - 1, Deg(180)}

TargetAngles == {Deg(0 - 20), Deg(0), Deg(0) + 1, Deg(1), Deg(90), Deg(90) + 1,
                 Deg(180), Deg(200)}

MoveScenarios ==
    { [callers |-> {}, stops |-> 0, faults |-> f, cmds |-> 0,
       move |-> [ch |-> 0, start |-> a, arg |-> b, steps |-> n]]
      : f \in {0, MaxFaults}, a \in StartAngles, b \in TargetAngles, n \in 1..MaxSteps }

MoveInit ==
    /\ simulation_mode = FALSE
    /\ arm_ready = TRUE
    /\ is_busy = FALSE
    /\ last_action_time = 0
    /\ current_position = "home"
    /\ positions = FullTable
    /\ scenario \in MoveScenarios
    /\ servo = [ch \in Channels |->
                  IF ch = scenario.move.ch THEN scenario.move.start
                  ELSE IF ch = GRIPPER_CHANNEL THEN Deg(180) ELSE positions["home"][ch]]
    /\ run = [t \in Callers |-> NoRun]
    /\ movers = { [run |-> "direct", step |-> 0, ch |-> scenario.move.ch, pc |-> "start",
                   start |-> 0, target |-> scenario.move.arg, arg |-> scenario.move.arg,
                   steps |-> scenario.move.steps, k |-> 0, halt |-> FALSE,
                   late |-> FALSE] }
    /\ estop = [pc |-> "idle", ch |-> 0, val |-> 0]
    /\ main = [pc |-> "join", ch |-> 0, n |-> 0]
    /\ calls = [t \in Callers |-> 0]
    /\ stops = 0
    /\ faults = 0
    /\ lost = {}
    /\ reported = {}
    /\ stopMark = "none"
    /\ overrun = FALSE
    /\ lateStep = FALSE

NextMove ==
    \/ \E m \in movers : MoverRead(m)
    \/ \E m \in movers : MoverWrite(m)
    \/ \E m \in movers : MoverFinal(m)

MoveSpec == MoveInit /\ [][NextMove]_vars

\* One direct call of move_to_position(position_dict, steps) or of
\* move_to_position_with_gripper(position_dict, start_gripper_angle,
\* end_gripper_angle, steps) on an idle controller.  The position dicts it is
\* given: the test's {0: 45, 1: 90, 2: 135}, one that lists the gripper
\* channel and a joint target half a degree off 45, and one with entries
\* outside 0..180.
CallDicts ==
    { PositionDict(Deg(45), Deg(90), Deg(135)),
      (0 :> (Deg(45) + 1)) @@ (GRIPPER_CHANNEL :> Deg(90)),
      (0 :> Deg(200)) @@ (1 :> Deg(0 - 20)) }

\* The angles the servos hold when the call is made: joints never commanded,
\* joints at home with the gripper closed, joints at 45 with the gripper open.
CallStarts ==
    { [ch \in Channels |-> IF ch = GRIPPER_CHANNEL THEN Deg(180) ELSE None],
      [ch \in Channels |-> IF ch = GRIPPER_CHANNEL THEN Deg(180) ELSE FullTable["home"][ch]],
      [ch \in Channels |-> IF ch = GRIPPER_CHANNEL THEN Deg(0) ELSE Deg(45)] }

\* The gripper angles <<start, end>> of a coordinated call: the two pairs
\* handle_object uses, pairs 0, 5, 5.5 and 6 degrees apart, and pairs with an
\* angle outside 0..180.
GripperPairs ==
    { <<Deg(180), Deg(0)>>, <<Deg(0), Deg(180)>>, <<Deg(90), Deg(90)>>,
      <<Deg(95), Deg(90)>>, <<Deg(90), Deg(95) + 1>>, <<Deg(90), Deg(96)>>,
      <<Deg(0), Deg(200)>>, <<Deg(0 - 20), Deg(90)>> }

CallScenarios(sim) ==
    LET moves == { [kind |-> "move", dict |-> d, start |-> a, gs |-> 0, ge |-> 0, steps |-> n]
                   : d \in CallDicts, a \in CallStarts, n \in 1..MaxSteps }
        coords == { [kind |-> "coord", dict |-> d, start |-> a, gs |-> g[1], ge |-> g[2],
                     steps |-> n]
                    : d \in CallDicts, a \in CallStarts, g \in GripperPairs, n \in 1..MaxSteps }
        quick == {c \in moves \cup coords : c.steps = 1 /\ c.start[0] = None}
    IN { [callers |-> {}, stops |-> 0, faults |-> f, cmds |-> 0, call |-> c]
         : f \in IF sim THEN {0} ELSE {0, MaxFaults},
           c \in IF sim THEN quick ELSE moves \cup coords }

CallInit ==
    /\ simulation_mode \in BOOLEAN
    /\ arm_ready = TRUE
    /\ is_busy = FALSE
    /\ last_action_time = 0
    /\ current_position = "home"
    /\ positions = FullTable
    /\ scenario \in CallScenarios(simulation_mode)
    /\ servo = scenario.call.start
    /\ run = [t \in Callers |-> NoRun]
    /\ movers = {}
    /\ estop = [pc |-> "idle", ch |-> 0, val |-> 0]
    /\ main = [pc |-> "call", ch |-> 0, n |-> 0, k |-> 0]
    /\ calls = [t \in Callers |-> 0]
    /\ stops = 0
    /\ faults = 0
    /\ lost = {}
    /\ reported = {}
    /\ stopMark = "none"
    /\ overrun = FALSE
    /\ lateStep = FALSE

\* A coordinated call without the test of line 227: the gripper is
\* interpolated whatever the distance between its two angles.
CallBeginAlwaysGrips ==
    LET c == scenario.call IN
    /\ main.pc = "call"
    /\ IF simulation_mode
       THEN /\ main' = [main EXCEPT !.pc = "idle"]
            /\ UNCHANGED movers
       ELSE /\ movers' = movers \cup
                  {[m EXCEPT !.steps = c.steps] : m \in StartMovers("direct", 0, c.dict)}
            /\ main' = [main EXCEPT !.pc = IF c.kind = "coord" THEN "grip" ELSE "join",
                                    !.k = 1]
    /\ UNCHANGED <<bootFrame, simulation_mode, arm_ready, current_position, servo,
                   faults, reported>>

\* Lines 162-180 of move_to_position and 203-229 of
\* move_to_position_with_gripper: return at once in simulation; else start one
\* smooth_move thread per channel of the dict that is not the gripper's, and,
\* in the coordinated call, enter the gripper loop only when the two gripper
\* angles are more than 5 degrees apart.
CallBegin ==
    LET c == scenario.call IN
    /\ main.pc = "call"
    /\ IF simulation_mode
       THEN /\ main' = [main EXCEPT !.pc = "idle"]
            /\ UNCHANGED movers
       ELSE /\ movers' = movers \cup
                  {[m EXCEPT !.steps = c.steps] : m \in StartMovers("direct", 0, c.dict)}
            /\ main' = [main EXCEPT !.pc = IF c.kind = "coord" /\ Abs(c.gs - c.ge) > Deg(5)
                                            THEN "grip" ELSE "join",
                                    !.k = 1]
    /\ UNCHANGED <<bootFrame, simulation_mode, arm_ready, current_position, servo,
                   faults, reported>>

\* One pass of the gripper loop (232-241) in the calling thread: the sample
\* is written as computed.  A write that raises is caught at line 250, and
\* the call returns without joining the arm threads.
CallGrip ==
    LET c == scenario.call IN
    /\ main.pc = "grip"
    /\ \/ /\ servo' = [servo EXCEPT ![GRIPPER_CHANNEL] = Sample(c.gs, c.ge, main.k, c.steps)]
          /\ main' = IF main.k < c.steps
                     THEN [main EXCEPT !.k = @ + 1]
                     ELSE [main EXCEPT !.pc = "gfinal", !.k = 0]
          /\ UNCHANGED <<faults, reported>>
       \/ /\ CanFault
          /\ faults' = faults + 1
          /\ reported' = reported \cup {[run |-> "direct", step |-> 0, ch |-> GRIPPER_CHANNEL]}
          /\ main' = [main EXCEPT !.pc = "idle", !.k = 0]
          /\ UNCHANGED servo
    /\ UNCHANGED <<bootFrame, simulation_mode, arm_ready, current_position, movers>>

\* Line 244: gripper_servo.angle = end_gripper_angle.
CallGripFinal ==
    /\ main.pc = "gfinal"
    /\ \/ /\ servo' = [servo EXCEPT ![GRIPPER_CHANNEL] = scenario.call.ge]
          /\ main' = [main EXCEPT !.pc = "join"]
          /\ UNCHANGED <<faults, reported>>
       \/ /\ CanFault
          /\ faults' = faults + 1
          /\ reported' = reported \cup {[run |-> "direct", step |-> 0, ch |-> GRIPPER_CHANNEL]}
          /\ main' = [main EXCEPT !.pc = "idle"]
          /\ UNCHANGED servo
    /\ UNCHANGED <<bootFrame, simulation_mode, arm_ready, current_position, movers>>

NextCall ==
    \/ CallBegin
    \/ CallGrip
    \/ CallGripFinal
    \/ CmdJoin
    \/ \E m \in movers : MoverRead(m)
    \/ \E m \in movers : MoverWrite(m)
    \/ \E m \in movers : MoverFinal(m)

CallSpec == CallInit /\ [][NextCall]_vars

\* A handle_object thread that was started and has not returned.
Alive(t) == run[t].pc \notin {"none", "done"}

\* ----------------------------------------------------------------- claims

\* C1: a handle_object call that begins while is_busy is true is rejected: it
\* starts no step, writes no actuator, and leaves is_busy, current_position
\* and last_action_time as they were.
C1_BusyCallRejected ==
    [][\A t \in Callers :
         (run[t].pc = "start" /\ is_busy /\ run'[t] # run[t]) =>
            /\ run'[t].pc = "done"
            /\ is_busy' = is_busy
            /\ current_position' = current_position
            /\ last_action_time' = last_action_time
            /\ servo' = servo
            /\ movers' = movers]_vars

\* C2: at most one handle_object sequence is executing in any reachable state.
C2_AtMostOneSequence == Cardinality({t \in Callers : Executing(t)}) <= 1

\* C3: every handle_object thread that was started returns with is_busy false,
\* whatever happened on the way (a missing preset, an actuator error, an
\* emergency stop), and is_busy never stays true forever.
C3_BusyAlwaysReleased ==
    /\ \A t \in Callers : Alive(t) ~> (run[t].pc = "done" /\ ~is_busy)
    /\ is_busy ~> ~is_busy

\* A sequence that met a missing preset has returned through the except block
\* and the finally block, and the arm is not busy.
C3_Witness ==
    \E t \in Callers :
        /\ run[t].pc = "done"
        /\ [run |-> t, step |-> 0, ch |-> None] \in reported
        /\ ~is_busy

\* C4: when a handle_object run that met no error and no emergency stop
\* returns, get_status reports position "home", gripper "closed", not busy and
\* ready.
C4_NormalRunEndsHome ==
    [][\A t \in Callers :
         (/\ run[t].pc = "finally"
          /\ run'[t].pc = "done"
          /\ stops = 0 /\ faults = 0 /\ reported = {}) =>
            /\ get_status'.position = "home"
            /\ get_status'.gripper = "closed"
            /\ get_status'.busy = FALSE
            /\ get_status'.ready = TRUE]_vars

\* C5: after an emergency stop made while a sequence was running has
\* returned, and until another handle_object is entered, the arm is not busy
\* and current_position is "unknown".
C5_StopLeavesUnknown ==
    stopMark = "after" => (~is_busy /\ current_position = "unknown")

\* C6: once emergency_stop has returned, no mover that was in flight writes a
\* second sample, and the interrupted sequence begins no further step.
C6_StopHaltsMotion == ~overrun /\ ~lateStep

\* C7: a smooth_move thread is alive only while the sequence that started it
\* is still inside the call of the step that started it.
C7_Barrier ==
    \A m \in movers :
        /\ run[m.run].step = m.step
        /\ run[m.run].pc \in {"grip", "gfinal", "join"}

\* The call of step s of sequence t has returned.
Returned(t, s) ==
    \/ run[t].step > s
    \/ run[t].step = s /\ run[t].pc \in {"label", "finally", "done"}
    \/ run[t].pc \in {"finally", "done"}

\* C8: when a mover of a step has failed, the step's result reports it, and
\* when the step returns every sibling joint is at its target.
C8_MoverFaultReported ==
    \A l \in lost :
        (l.op = "write" /\ Returned(l.run, l.step)) =>
            /\ l \in reported
            /\ (run[l.run].pc \in {"label", "begin"} /\ run[l.run].step \in {l.step, l.step + 1}
                 /\ movers = {}) =>
                  \A ch \in (0..2) \ {l.ch} :
                     servo[ch] = Clamp(StepTarget(positions, l.step, run[l.run].defective)[ch])

\* The steps whose motion leads to the preset labelled after step s.
MotionSteps(s) == IF s = 1 THEN {1} ELSE IF s = 5 THEN {3, 4, 5} ELSE {7, 8}

\* A mover or the gripper of the motion failed, or a stop cancelled it.
MotionFailed(t, s) ==
    \/ \E l \in lost : l.run = t /\ l.step \in MotionSteps(s)
    \/ \E e \in reported : e.run = t /\ e.step \in MotionSteps(s)
    \/ run[t].halted

\* C9: the label assignment after a motion sets the preset's name only when
\* every mover of that motion succeeded, and "unknown" otherwise.
C9_LabelOnlyAfterSuccess ==
    [][\A t \in Callers :
         (run[t].pc = "label" /\ run'[t] # run[t] /\ run'[t].halted = run[t].halted) =>
            current_position' =
                IF MotionFailed(t, run[t].step) THEN "unknown"
                ELSE StepLabel(run[t].step, run[t].defective)]_vars

\* C10: a handle_object(False) run whose joint-1 mover failed during Transit
\* still returns, with current_position "unknown" and the fault reported.
C10_TransitFault ==
    \A t \in Callers :
        (/\ run[t].pc = "done"
         /\ ~run[t].defective
         /\ \E l \in lost : l.run = t /\ l.step = 4 /\ l.ch = 1) =>
            /\ ~is_busy
            /\ current_position = "unknown"
            /\ \E e \in reported : e.run = t

\* C11: a move_to_position call made while a handle_object sequence is
\* executing is rejected: it returns at once and starts no smooth_move thread.
C11_MoveToBusyRejected ==
    [][((\E t \in Callers : Executing(t)) /\ main.pc = "idle" /\ main' # main) =>
          /\ main'.pc = "idle"
          /\ \A m \in movers' : m.run = "direct" => m \in movers]_vars

\* C12: a handle_object run started after an emergency stop has returned,
\* and which meets no further stop, no error and no exception, runs all eight
\* steps and returns with position "home" and the arm not busy.
C12_StopDoesNotOutlive ==
    [][\A t \in Callers :
         (/\ run[t].pc = "finally" /\ run'[t].pc = "done"
          /\ run[t].afterStop /\ ~run[t].halted
          /\ faults = 0 /\ reported = {} /\ lost = {}) =>
            /\ run[t].step = LastStep
            /\ get_status'.position = "home"
            /\ get_status'.busy = FALSE]_vars

\* C13: on hardware the gripper field of get_status is "open" exactly when
\* the angle last written to the gripper servo is below 90 degrees.
C13_GripperThreshold ==
    (Constructed /\ ~simulation_mode /\ servo[GRIPPER_CHANNEL] # None) =>
        (get_status.gripper = "open" <=> servo[GRIPPER_CHANNEL] < Deg(90))

\* C14: get_status never raises: no call of it, in any state the constructed
\* controller reaches, ends as an exception in its caller.
C14_StatusNeverRaises == \A l \in lost : l.run # "status"

\* An actuator operation of the constructor failed.
BootFault == \E e \in reported \cup lost : e.run = "main"

\* C15: once a constructor in which an actuator operation failed has
\* returned, the controller is not ready and in simulation mode, and no step
\* of any later command changes an actuator's angle.
C15_InitFaultFallsBack ==
    [][(Constructed /\ BootFault) =>
          (~arm_ready /\ simulation_mode /\ servo' = servo)]_vars

\* C16: when a constructor in which nothing failed returns, the controller is
\* ready, not busy and at "home"; on hardware joints 0-2 are at the home
\* preset's angles and the gripper servo is at 180.
C16_InitReady ==
    [][(~Constructed /\ Constructed' /\ ~BootFault) =>
          /\ arm_ready' /\ ~is_busy' /\ current_position' = "home"
          /\ ~simulation_mode' =>
                /\ \A ch \in 0..2 : servo'[ch] = positions["home"][ch]
                /\ servo'[GRIPPER_CHANNEL] = Deg(180)]_vars

\* A fault-free constructor on hardware has just returned.
C16_Witness ==
    /\ Constructed /\ ~simulation_mode /\ ~BootFault /\ faults = 0
    /\ arm_ready /\ current_position = "home"
    /\ servo[0] = Deg(120) /\ servo[GRIPPER_CHANNEL] = Deg(180)
    /\ main.n = 0 /\ \A t \in Callers : calls[t] = 0

\* C17: arm_ready and simulation_mode are assigned by the constructor only:
\* no step of handle_object, of a move, of a gripper command or of
\* emergency_stop changes them, with or without an actuator error, and
\* emergency_stop returns with the arm not busy and arm_ready as it was.
C17_ReadyOnlyInInit ==
    [][/\ (arm_ready' # arm_ready \/ simulation_mode' # simulation_mode) => ~Constructed
       /\ (estop.pc = "reset" /\ estop'.pc = "idle") =>
              (~is_busy' /\ arm_ready' = arm_ready)]_vars

\* An emergency stop made during a sequence has returned: the arm is not
\* busy and still ready.
C17_Witness ==
    /\ Constructed /\ stopMark = "after" /\ estop.pc = "idle"
    /\ arm_ready /\ ~is_busy

\* C18: emergency_stop never raises: a failed read or write of an angle
\* takes it to line 393, no exception of it reaches its caller, and it
\* returns with is_busy false.
C18_StopNeverRaises ==
    [][(estop.pc # "idle" /\ estop' # estop) =>
          /\ estop'.pc \in {"read", "write", "reset", "idle"}
          /\ faults' > faults => estop'.pc = "reset"
          /\ estop'.pc = "idle" => ~is_busy'
          /\ \A l \in lost' : l.run # "estop"]_vars

\* An emergency stop in which an actuator access failed has returned, and
\* the arm is not busy.
C18_Witness ==
    /\ estop.pc = "idle" /\ stops > 0 /\ ~is_busy
    /\ \E e \in reported : e.run = "estop"

\* The clamped distance of the direct smooth_move call.
MoveDelta ==
    Abs(Clamp(scenario.move.arg)
          - Clamp(IF scenario.move.start = None THEN 0 ELSE scenario.move.start))

\* The direct smooth_move call has returned, and no actuator access failed.
MoveReturned == movers = {} /\ faults = 0

\* C19: a smooth_move over a clamped distance of a degree or more ends with
\* the servo at exactly the clamped target, and the target it interpolates
\* to is the clamped one.
C19_FinalSampleExact ==
    /\ (MoveReturned /\ MoveDelta >= Deg(1)) =>
           servo[scenario.move.ch] = Clamp(scenario.move.arg)
    /\ \A m \in movers : m.pc \in {"loop", "final"} => m.target = Clamp(m.arg)

\* A move of several steps to a target above 180 has returned.
C19_Witness ==
    /\ MoveReturned /\ MoveDelta >= Deg(1)
    /\ scenario.move.arg > Deg(180) /\ scenario.move.steps > 1
    /\ servo[scenario.move.ch] = Deg(180)

\* C20: a smooth_move over a clamped distance below one degree writes no
\* sample: it never enters its loop and the servo's angle stays as it was.
C20_NoSamplesBelowOneDegree ==
    MoveDelta < Deg(1) =>
        /\ \A m \in movers : m.pc = "start"
        /\ servo[scenario.move.ch] = scenario.move.start

\* A move whose target differs from the servo's angle by half a degree has
\* returned with the angle untouched.
C20_Witness ==
    /\ MoveReturned /\ MoveDelta < Deg(1)
    /\ scenario.move.start # None /\ scenario.move.arg # scenario.move.start
    /\ servo[scenario.move.ch] = scenario.move.start

\* The call of the step sequence t is in returns with this transition.
StepEnds(t) ==
    /\ InStep(t) /\ run[t].pc # "label"
    /\ run'[t].pc = "label" \/ run'[t].step = run[t].step + 1

\* The gripper angle a step of handle_object leaves (lines 318, 324, 352, 363).
GripperAfter(s) == IF s \in {1, 6, 7} THEN Deg(0) ELSE Deg(180)

\* C21: a handle_object run that meets no actuator error goes through its
\* steps in the order PickApproach, Grasp, Lift, Transit, Place, Release,
\* ReturnLift, ReturnHome, one at a time: a step's call returns only when
\* every thread it started has ended; in Lift, Transit and Place the run
\* starts no thread on the gripper channel, enters no gripper loop and writes
\* no gripper angle.  When no emergency stop writes the servos either,
\* PickApproach leaves the joints at "pickup" and the gripper at 0, Grasp the
\* gripper at 180, Release at 0, ReturnHome the joints at "home" and the
\* gripper at 180, and from the end of Grasp to the start of Release the
\* gripper servo stays at 180.
C21_StepsInOrder ==
    [][\A t \in Callers :
         (faults' = 0 /\ InStep(t) /\ run'[t] # run[t]) =>
            /\ run'[t].step \in {run[t].step, run[t].step + 1}
            /\ run'[t].step # run[t].step => run'[t].pc = "begin"
            /\ StepEnds(t) => \A m \in movers' : m.run # t
            /\ run'[t].step \in 3..5 =>
                  /\ run'[t].pc \notin {"grip", "gfinal"}
                  /\ \A m \in movers' : m.run = t => m.ch # GRIPPER_CHANNEL
                  /\ (run[t].pc = "begin" /\ run'[t].pc # "begin") =>
                        servo'[GRIPPER_CHANNEL] = servo[GRIPPER_CHANNEL]
            /\ (StepEnds(t) /\ ~simulation_mode /\ stops' = 0) =>
                  /\ servo'[GRIPPER_CHANNEL] = GripperAfter(run[t].step)
                  /\ run[t].step = 1 => \A ch \in 0..2 : servo'[ch] = positions["pickup"][ch]
                  /\ run[t].step = LastStep => \A ch \in 0..2 : servo'[ch] = positions["home"][ch]
            /\ (~simulation_mode /\ stops' = 0
                  /\ (run'[t].step \in 3..5 \/ (run'[t].step = 6 /\ run'[t].pc = "begin"))) =>
                  servo'[GRIPPER_CHANNEL] = Deg(180)]_vars

\* A run on hardware, with no error and no stop, is about to release the
\* object at the place position, the gripper still closed.
C21_Witness ==
    \E t \in Callers :
        /\ ~simulation_mode /\ faults = 0 /\ stops = 0
        /\ run[t].step = 6 /\ run[t].pc = "begin"
        /\ servo[GRIPPER_CHANNEL] = Deg(180)
        /\ servo[1] = Deg(0) /\ servo[2] = Deg(180)
        /\ current_position \in {"defective", "non_defective"}

\* C22: the threads a step of handle_object(defective) starts are given the
\* angles of the "pickup" preset in PickApproach, pickup's joint-0 angle with
\* 45/45 in Lift, the joint-0 angle of "defective" (defective true) or
\* "non_defective" (defective false) with 45/45 in Transit and ReturnLift,
\* that preset's three angles in Place, and the "home" preset in ReturnHome;
\* the label assigned after Place is "defective" when defective is true and
\* "non_defective" when it is false.
C22_PresetTargets ==
    [][\A t \in Callers :
         LET place == IF run[t].defective THEN "defective" ELSE "non_defective" IN
         /\ \A m \in movers' \ movers :
               (m.run = t /\ m.pc = "start") =>
                  m.arg = CASE m.step = 1 -> positions["pickup"][m.ch]
                            [] m.step = 3 -> IF m.ch = 0 THEN positions["pickup"][0] ELSE Deg(45)
                            [] m.step \in {4, 7} -> IF m.ch = 0 THEN positions[place][0] ELSE Deg(45)
                            [] m.step = 5 -> positions[place][m.ch]
                            [] m.step = 8 -> positions["home"][m.ch]
         /\ (run[t].pc = "label" /\ run[t].step = 5 /\ run'[t].pc # "label") =>
               current_position' = place]_vars

\* A handle_object(False) run on hardware has placed the object: the joints
\* are at the "non_defective" preset and the label says so.
C22_Witness ==
    \E t \in Callers :
        /\ ~simulation_mode /\ ~run[t].defective
        /\ run[t].step = 6 /\ run[t].pc = "begin"
        /\ servo[0] = Deg(90) /\ servo[1] = Deg(0) /\ servo[2] = Deg(180)
        /\ current_position = "non_defective"

\* The direct call has returned to its caller.
CallReturned == main.pc = "idle"

\* The joints the direct call's position dict lists.
CallJoints == (DOMAIN scenario.call.dict) \ {GRIPPER_CHANNEL}

\* Joint ch is where a smooth_move of the direct call that met no error
\* leaves it: at the clamped target, or, when it began less than a degree
\* from it, where it was.
JointSettled(ch) ==
    LET c == scenario.call
        cur == Clamp(IF c.start[ch] = None THEN 0 ELSE c.start[ch])
        tgt == Clamp(c.dict[ch])
    IN IF Abs(tgt - cur) < Deg(1) THEN servo[ch] = c.start[ch] ELSE servo[ch] = tgt

CoordReturned ==
    /\ scenario.call.kind = "coord" /\ ~simulation_mode
    /\ Abs(scenario.call.gs - scenario.call.ge) > Deg(5)
    /\ CallReturned /\ faults = 0

\* C24 as stated: when such a coordinated call returns, every joint listed
\* in the position dict is exactly at the angle the dict gives and the
\* gripper is exactly at end_gripper_angle.
C24_CoordEndsExact ==
    CoordReturned =>
        /\ \A ch \in CallJoints : servo[ch] = scenario.call.dict[ch]
        /\ servo[GRIPPER_CHANNEL] = scenario.call.ge

\* C24 amended: when such a coordinated call returns, for any step count,
\* every joint listed in the position dict is at its target clamped to
\* 0..180, except a joint that began less than one degree from it, which is
\* where it was; the gripper is exactly at end_gripper_angle.
C24_CoordEndsSettled ==
    CoordReturned =>
        /\ \A ch \in CallJoints : JointSettled(ch)
        /\ servo[GRIPPER_CHANNEL] = scenario.call.ge

\* The test's call has returned: {0: 45, 1: 90, 2: 135} with the gripper
\* from 180 to 0 in three steps, servos never commanded before.
C24_Witness ==
    /\ CoordReturned
    /\ scenario.call.steps = 3 /\ scenario.call.start[0] = None
    /\ scenario.call.gs = Deg(180) /\ scenario.call.ge = Deg(0)
    /\ servo[0] = Deg(45) /\ servo[1] = Deg(90) /\ servo[2] = Deg(135)
    /\ servo[GRIPPER_CHANNEL] = Deg(0)

\* The direct call is a move_to_position on hardware.
MoveToCall == scenario.call.kind = "move" /\ ~simulation_mode

\* C25 as stated: when a move_to_position call that met no error returns,
\* every joint listed in the position dict is exactly at the angle the dict
\* gives, from whatever angles the joints started, and the call never writes
\* the gripper servo, even when the dict lists the gripper channel.
C25_MoveEndsExact ==
    MoveToCall =>
        /\ (CallReturned /\ faults = 0) =>
              \A ch \in CallJoints : servo[ch] = scenario.call.dict[ch]
        /\ servo[GRIPPER_CHANNEL] = scenario.call.start[GRIPPER_CHANNEL]

\* C25 amended: when a move_to_position call that met no error returns, every
\* joint listed in the position dict is at its angle clamped to 0..180,
\* except a joint that began less than one degree from it, which is where it
\* was; the call never starts a thread for the gripper channel and never
\* writes the gripper servo, even when the dict lists the gripper channel.
C25_MoveEndsSettled ==
    MoveToCall =>
        /\ (CallReturned /\ faults = 0) => \A ch \in CallJoints : JointSettled(ch)
        /\ \A m \in movers : m.ch # GRIPPER_CHANNEL
        /\ servo[GRIPPER_CHANNEL] = scenario.call.start[GRIPPER_CHANNEL]

\* A move_to_position call whose dict lists the gripper channel has returned:
\* joint 0 went from home to its target, the gripper servo is untouched.
C25_Witness ==
    /\ MoveToCall /\ CallReturned /\ faults = 0
    /\ GRIPPER_CHANNEL \in DOMAIN scenario.call.dict
    /\ scenario.call.start[0] = Deg(120)
    /\ servo[0] = scenario.call.dict[0]
    /\ servo[GRIPPER_CHANNEL] = scenario.call.start[GRIPPER_CHANNEL]
    /\ servo[GRIPPER_CHANNEL] # scenario.call.dict[GRIPPER_CHANNEL]

\* C26: whenever a handle_object run is inside one of its steps, or a
\* smooth_move thread one of its steps started is alive, is_busy is true and
\* get_status reports busy.
C26_BusyTruthful ==
    \A t \in Callers :
        (InStep(t) \/ \E m \in movers : m.run = t) =>
            (is_busy /\ get_status.busy)

\* C27: no actuator has two unfinished motion profiles at once: two
\* smooth_move threads alive on the same channel belong to the same call
\* (they are one thread), and at most one thread is inside a gripper loop.
C27_SingleWriter ==
    /\ \A m1, m2 \in movers :
          m1.ch = m2.ch => (m1.run = m2.run /\ m1.step = m2.step)
    /\ Cardinality({t \in Callers : run[t].pc \in {"grip", "gfinal"}}) <= 1

\* C28: the angle emergency_stop writes to a channel is the angle the servo
\* holds at the moment of the write: the write-back changes no servo's angle,
\* whatever was written to the servo since the stop read it.
C28_StopOnlyHolds ==
    [][(estop.pc = "write" /\ estop' # estop) => servo' = servo]_vars

\* C29: in a handle_object run that meets no actuator error, while the
\* smooth_move thread of joint 0 of the Transit step or of the ReturnHome
\* step is writing its profile, joints 1 and 2 are at 45 degrees.
C29_VerticalSafeInTransit ==
    \A m \in movers :
        (/\ m.run \in Callers /\ m.step \in {4, 8} /\ m.ch = 0
         /\ m.pc \in {"loop", "final"}
         /\ faults = 0) =>
            (servo[1] = Deg(45) /\ servo[2] = Deg(45))

\* C30: every angle a servo is given lies in 0..180 degrees, whatever start
\* angle, target angle, position dict and gripper start and end angle the
\* call is passed.
C30_WritesInRange ==
    \A ch \in Channels :
        servo[ch] # None => (0 <= servo[ch] /\ servo[ch] <= Deg(180))

====
